---------------------------- MODULE Spec2Model ----------------------------
(***************************************************************************)
(* Model of the trip-planning wizard of travel-taste-matcher               *)
(* (client/src/pages/Home.tsx with shared/schema.ts): the location /       *)
(* country normaliser, the budget estimator and the step-0 budget analysis *)
(* of the wizard.                                                          *)
(*                                                                         *)
(* Conventions of the model                                                *)
(*  - A location string is a sequence of tokens: "," (comma), " " (one     *)
(*    white-space character) and words, a word being a non-empty run of    *)
(*    characters without comma and without leading or trailing white       *)
(*    space.  Join turns a token sequence back into the string.            *)
(*  - The JavaScript value undefined is the string "<undefined>"; no word  *)
(*    of the model is spelled like that.                                   *)
(*  - Multipliers are held in hundredths (0.85 is 85), so a product of the *)
(*    five multipliers is in units of 10^-10.  The product is computed     *)
(*    exactly on three limbs of base 10^6 because TLC integers have 32     *)
(*    bits.  Math.round rounds half up; see MathRound for exact halves.   *)
(*  - Exchange rates are held in hundredths too (0.56 is 56): an amount    *)
(*    converted to INR is in paise (1/100 INR).                            *)
(***************************************************************************)
EXTENDS Integers, Sequences, FiniteSets, TLC

(***************************************************************************)
(* Bounds of the model.                                                    *)
(***************************************************************************)
MaxDays == 3
MaxPeople == 3
MaxEdits == 4

VARIABLES
  tieUp,               \* direction in which a product that is an exact half rounds
  phase,               \* estimator calls: "init", "estimated", "derived"
  args,                \* the argument object of estimateBudgetRangeInInr
  range,               \* its result
  budget,              \* the budget handed to deriveBudgetTierFromRange
  tier,                \* its result
  form,                \* the values of the react-hook-form form
  currentStep,         \* wizard step, 0 or 1
  isAnalysingBasics,
  budgetFeedback,      \* null or the budget warning
  allowProceedAnyway,
  pc,                  \* nextStep: "idle", or "analysing" during its 700 ms delay
  analysis,            \* <<the last completed budget analysis>>, <<>> once the user edits a field
  edits,               \* number of field edits made so far
  call,                \* the helper function called last and its argument
  result,              \* what that call returned
  suggest,             \* per input field: its value and the state of its suggestion lookup
  tripGoalValue,       \* the trip goal the destination lookup watches
  server,              \* the request the server handles: its route, stage and response
  submit               \* step 1 of the wizard: its fields, the destination options,
                       \* the selection and the requests of onSubmit

suggestVars == <<suggest, tripGoalValue>>
callVars == <<phase, args, range, budget, tier, call, result, suggestVars, server>>
wizardVars == <<form, currentStep, isAnalysingBasics, budgetFeedback,
                allowProceedAnyway, pc, analysis, edits>>
vars == <<tieUp, callVars, wizardVars, submit>>

undefined == "<undefined>"
null == "<null>"

\* NaN is the number -1 of the model: no amount, rate, count of days or bound
\* of a range is negative
NaN == -1

(***************************************************************************)
(* Static tables (Home.tsx 67-157).                                        *)
(***************************************************************************)
CURRENCY_TO_INR ==
  ("INR" :> 100) @@ ("USD" :> 8300) @@ ("EUR" :> 9000) @@ ("GBP" :> 10500) @@
  ("JPY" :> 56) @@ ("AUD" :> 5400) @@ ("CAD" :> 6100)

CURRENCY_STRENGTH ==
  ("INR" :> "weak") @@ ("JPY" :> "weak") @@ ("AUD" :> "medium") @@
  ("CAD" :> "medium") @@ ("USD" :> "strong") @@ ("EUR" :> "strong") @@
  ("GBP" :> "strong")

COUNTRY_ALIASES ==
  ("The Netherlands" :> "Netherlands") @@ ("Holland" :> "Netherlands") @@
  ("United States of America" :> "United States") @@
  ("USA" :> "United States") @@ ("U.S.A." :> "United States") @@
  ("UK" :> "United Kingdom") @@ ("U.K." :> "United Kingdom") @@
  ("UAE" :> "United Arab Emirates")

COUNTRY_REGION ==
  ("Netherlands" :> "europe") @@ ("India" :> "asia") @@
  ("Australia" :> "oceania") @@ ("New Zealand" :> "oceania") @@
  ("United States" :> "north_america") @@ ("Canada" :> "north_america") @@
  ("United Kingdom" :> "europe") @@ ("Germany" :> "europe") @@
  ("France" :> "europe") @@ ("Italy" :> "europe") @@ ("Spain" :> "europe") @@
  ("Japan" :> "asia") @@ ("Singapore" :> "asia") @@ ("Indonesia" :> "asia") @@
  ("Thailand" :> "asia") @@ ("Malaysia" :> "asia") @@ ("Vietnam" :> "asia") @@
  ("Philippines" :> "asia") @@ ("United Arab Emirates" :> "middle_east")

COUNTRY_CURRENCY ==
  ("India" :> "INR") @@ ("Netherlands" :> "EUR") @@ ("Germany" :> "EUR") @@
  ("France" :> "EUR") @@ ("Italy" :> "EUR") @@ ("Spain" :> "EUR") @@
  ("United Kingdom" :> "GBP") @@ ("United States" :> "USD") @@
  ("Canada" :> "CAD") @@ ("Australia" :> "AUD") @@ ("Japan" :> "JPY") @@
  ("Singapore" :> "USD") @@ ("United Arab Emirates" :> "USD")

REGION_DEFAULT_CURRENCY ==
  ("asia" :> "INR") @@ ("europe" :> "EUR") @@ ("oceania" :> "AUD") @@
  ("north_america" :> "USD") @@ ("south_america" :> "USD") @@
  ("africa" :> "USD") @@ ("middle_east" :> "USD") @@ ("global" :> "INR")

DOMESTIC_COST_MULTIPLIER_BY_COUNTRY ==
  ("Netherlands" :> 125) @@ ("India" :> 85) @@ ("Australia" :> 135) @@
  ("New Zealand" :> 135) @@ ("United States" :> 140) @@ ("Canada" :> 130) @@
  ("United Kingdom" :> 130) @@ ("Singapore" :> 135) @@ ("Japan" :> 125)

(***************************************************************************)
(* The tables are object literals: reading a property that the literal     *)
(* does not define finds the properties every object inherits from         *)
(* Object.prototype.  The inherited values are functions and objects, not  *)
(* strings or numbers; String(value) is the key they make when they index  *)
(* a table themselves.                                                     *)
(***************************************************************************)
ObjectPrototype ==
  ("constructor" :> "<function Object>") @@
  ("toString" :> "<function toString>") @@
  ("__proto__" :> "<Object.prototype>")

\* obj[key]
Get(obj, key) ==
  IF key \in DOMAIN obj THEN obj[key]
  ELSE IF key \in DOMAIN ObjectPrototype THEN ObjectPrototype[key]
  ELSE undefined

\* the property key a value used as an index is converted to
ToPropertyKey(value) ==
  CASE value = "<function Object>" -> "function Object() { [native code] }"
    [] value = "<function toString>" -> "function toString() { [native code] }"
    [] value = "<Object.prototype>" -> "[object Object]"
    [] OTHER -> value

\* the truthiness of a string, an object or undefined
Truthy(value) == value \notin {undefined, null, ""}

(***************************************************************************)
(* Strings as token sequences: split(","), trim(), filter(Boolean).        *)
(***************************************************************************)
RECURSIVE Join(_)
Join(seg) == IF seg = <<>> THEN "" ELSE Head(seg) \o Join(Tail(seg))

RECURSIVE TrimStart(_)
TrimStart(seg) ==
  IF seg # <<>> /\ Head(seg) = " " THEN TrimStart(Tail(seg)) ELSE seg

RECURSIVE TrimEnd(_)
TrimEnd(seg) ==
  IF seg # <<>> /\ seg[Len(seg)] = " "
  THEN TrimEnd(SubSeq(seg, 1, Len(seg) - 1)) ELSE seg

Trim(seg) == TrimEnd(TrimStart(seg))

\* location.split(","): the segments between the commas, in order
RECURSIVE SplitComma(_, _)
SplitComma(loc, cur) ==
  IF loc = <<>> THEN <<cur>>
  ELSE IF Head(loc) = "," THEN <<cur>> \o SplitComma(Tail(loc), <<>>)
  ELSE SplitComma(Tail(loc), Append(cur, Head(loc)))

\* .map((part) => part.trim()).filter(Boolean)
TrimmedParts(location) ==
  LET segs == SplitComma(location, <<>>)
  IN  SelectSeq([i \in 1..Len(segs) |-> Trim(segs[i])], LAMBDA s : s # <<>>)

(***************************************************************************)
(* Location / country normaliser (Home.tsx 159-195).                       *)
(***************************************************************************)
normalizeCountryName(country) ==
  LET trimmed == Join(Trim(country))
      alias == Get(COUNTRY_ALIASES, trimmed)
  IN  IF trimmed = "" THEN undefined
      ELSE IF Truthy(alias) THEN alias
      ELSE trimmed

getCountryFromLocation(location) ==
  LET parts == TrimmedParts(location)
  IN  IF Len(parts) = 0 THEN undefined
      ELSE normalizeCountryName(parts[Len(parts)])

getRegionFromCountry(country) ==
  LET region == Get(COUNTRY_REGION, ToPropertyKey(country))
  IN  IF ~Truthy(country) THEN "global"
      ELSE IF Truthy(region) THEN region
      ELSE "global"

getSuggestedCurrencyFromLocation(location) ==
  LET country == getCountryFromLocation(location)
      suggested == Get(COUNTRY_CURRENCY, ToPropertyKey(country))
      byRegion == Get(REGION_DEFAULT_CURRENCY, ToPropertyKey(getRegionFromCountry(country)))
  IN  IF Truthy(country) /\ Truthy(suggested) THEN suggested
      ELSE IF Truthy(byRegion) THEN byRegion
      ELSE "INR"

(***************************************************************************)
(* Budget estimator (Home.tsx 197-285).                                    *)
(***************************************************************************)
getInternationalOriginMultiplier(country) ==
  LET region == getRegionFromCountry(country)
  IN  CASE region = "oceania" -> 115
        [] region = "europe" -> 118
        [] region = "north_america" -> 120
        [] region = "middle_east" -> 105
        [] region = "africa" -> 100
        [] region = "south_america" -> 110
        [] region = "asia" -> 100
        [] OTHER -> 110

\* an unknown currency treated as weak
getCurrencyStrengthMultiplier_weak(currency) ==
  LET found == Get(CURRENCY_STRENGTH, currency)
      strength == IF found = undefined THEN "weak" ELSE found
  IN  IF strength = "strong" THEN 90
      ELSE IF strength = "weak" THEN 110
      ELSE 100

getCurrencyStrengthMultiplier(currency) ==
  LET found == Get(CURRENCY_STRENGTH, currency)
      strength == IF found = undefined THEN "medium" ELSE found
  IN  IF strength = "strong" THEN 90
      ELSE IF strength = "weak" THEN 110
      ELSE 100

Max(a, b) == IF a >= b THEN a ELSE b
Min(a, b) == IF a <= b THEN a ELSE b

\* a non-negative integer n < 10^12 on three limbs of base 10^6, low limb first
Limbs(n) == <<n % 10^6, n \div 10^6, 0>>

\* x * m, m a multiplier in hundredths
MulLimbs(x, m) ==
  LET p1 == x[1] * m
      p2 == x[2] * m + (p1 \div 10^6)
      p3 == x[3] * m + (p2 \div 10^6)
  IN  <<p1 % 10^6, p2 % 10^6, p3>>

\* base * ms[1] * ... * ms[n], left to right as the code multiplies
RECURSIVE MulAll(_, _)
MulAll(x, ms) == IF ms = <<>> THEN x ELSE MulAll(MulLimbs(x, Head(ms)), Tail(ms))

\* Math.round of a product of five multipliers in hundredths (units 10^-10):
\* 10^10 = 10^4 * 10^6, half of it is 5000 * 10^6.  Math.round rounds an
\* exact half up; the double-precision product of an exact half is the half
\* itself or a neighbouring double, so it is rounded up or down: tieUp.
MathRound(x) ==
  LET whole == x[3] * 100 + (x[2] \div 10^4)
      frac  == <<x[2] % 10^4, x[1]>>
  IN  IF frac[1] > 5000 \/ (frac[1] = 5000 /\ frac[2] > 0) THEN whole + 1
      ELSE IF frac = <<5000, 0>> THEN (IF tieUp THEN whole + 1 ELSE whole)
      ELSE whole

\* the domestic per-day low band used for international trips too
perDayLow_shared(domestic) == 1200
perDayLow(domestic) == IF domestic THEN 1200 ELSE 2500
perDayHigh(domestic) == IF domestic THEN 3000 ELSE 6500
fixedLow(domestic) == IF domestic THEN 3000 ELSE 12000
\* a dropped digit in the domestic fixed high band
fixedHigh_dropped(domestic) == IF domestic THEN 800 ELSE 30000
fixedHigh(domestic) == IF domestic THEN 8000 ELSE 30000

geoMultiplier(domestic, originCountry) ==
  IF domestic
  THEN IF originCountry # undefined
          /\ originCountry \in DOMAIN DOMESTIC_COST_MULTIPLIER_BY_COUNTRY
       THEN DOMESTIC_COST_MULTIPLIER_BY_COUNTRY[originCountry]
       ELSE 100
  ELSE getInternationalOriginMultiplier(originCountry)

\* the currency strength applied to domestic trips too
currencyMultiplier_always(domestic, currency) ==
  getCurrencyStrengthMultiplier(currency)

currencyMultiplier(domestic, currency) ==
  IF domestic THEN 100 ELSE getCurrencyStrengthMultiplier(currency)

\* medium comfort discounted like low comfort
comfortMultiplier_medium(comfortLevel) ==
  IF comfortLevel = "premium" THEN 135 ELSE 85

comfortMultiplier(comfortLevel) ==
  IF comfortLevel = "low" THEN 85
  ELSE IF comfortLevel = "premium" THEN 135
  ELSE 100

flightBudgetMultiplier(includesFlights) == IF includesFlights THEN 100 ELSE 78

flightDurationMultiplier(tripType, maxFlightHours) ==
  IF tripType = "international"
  THEN IF maxFlightHours <= 6 THEN 90
       ELSE IF maxFlightHours >= 12 THEN 110
       ELSE 100
  ELSE 100

\* a is the argument object: days, numberOfPeople, tripType, currency,
\* startLocation, comfortLevel, includesFlights, maxFlightHours
estimateBudgetRangeInInr(a) ==
  IF a.days = NaN THEN [low |-> NaN, high |-> NaN]     \* Math.round(NaN * ...)
  ELSE
  LET travelers == Max(1, a.numberOfPeople)
      domestic == a.tripType = "domestic"
      originCountry == getCountryFromLocation(a.startLocation)
      baseLow == travelers * (a.days * perDayLow(domestic) + fixedLow(domestic))
      baseHigh == travelers * (a.days * perDayHigh(domestic) + fixedHigh(domestic))
      ms == << geoMultiplier(domestic, originCountry),
               currencyMultiplier(domestic, a.currency),
               comfortMultiplier(a.comfortLevel),
               flightBudgetMultiplier(a.includesFlights),
               flightDurationMultiplier(a.tripType, a.maxFlightHours) >>
  IN  [ low  |-> MathRound(MulAll(Limbs(baseLow), ms)),
        high |-> MathRound(MulAll(Limbs(baseHigh), ms)) ]

\* CURRENCY_TO_INR[currency] ?? 1, in hundredths.  A property inherited from
\* Object.prototype is not nullish, so it is the rate: arithmetic on it gives NaN
rateToInr(currency) ==
  IF currency \in DOMAIN CURRENCY_TO_INR THEN CURRENCY_TO_INR[currency]
  ELSE IF currency \in DOMAIN ObjectPrototype THEN NaN
  ELSE 100

\* the quotient num / den of two numbers; 0 / 0 is NaN
Quotient(num, den) == [num |-> num, den |-> den]

\* the rate inverted: the amount multiplied by the rate
convertInrToCurrency_times(amountInInr, currency) ==
  LET rate == rateToInr(currency)
  IN  IF rate = NaN THEN Quotient(0, 0) ELSE Quotient(amountInInr * rate, 100)

\* amountInInr / rate
convertInrToCurrency(amountInInr, currency) ==
  LET rate == rateToInr(currency)
  IN  IF rate = NaN THEN Quotient(0, 0) ELSE Quotient(amountInInr * 100, rate)

\* x < y and x <= y on numbers: false when either is NaN
Lt(x, y) == x # NaN /\ y # NaN /\ x < y
Le(x, y) == x # NaN /\ y # NaN /\ x <= y

\* the bounds of the range classified as outside it
deriveBudgetTierFromRange_inclusive(budgetInInr, rangeInInr) ==
  IF Le(budgetInInr, rangeInInr.low) THEN "low"
  ELSE IF Le(rangeInInr.high, budgetInInr) THEN "premium"
  ELSE "medium"

deriveBudgetTierFromRange(budgetInInr, rangeInInr) ==
  IF Lt(budgetInInr, rangeInInr.low) THEN "low"
  ELSE IF Lt(rangeInInr.high, budgetInInr) THEN "premium"
  ELSE "medium"

(***************************************************************************)
(* The wizard form (Home.tsx 357-388) and its step-0 validation            *)
(* (Home.tsx 390-417 with shared/schema.ts 7-66).  A date string is held   *)
(* as the time new Date gives it, in days counted from today; NaN is a     *)
(* date string that new Date cannot parse.                                 *)
(***************************************************************************)
STEPS == <<"basics", "details">>

DefaultValues ==
  [ trip_goal |-> "need_recommendation", comfort_level |-> "medium",
    trip_type |-> "domestic", location |-> <<>>, destination_location |-> <<>>,
    number_of_people |-> 2, includes_flights |-> TRUE, max_flight_hours |-> 8,
    budget_amount |-> 1000, currency |-> "INR", companions |-> "Couple",
    startDate |-> 0, endDate |-> 3,
    budget_mode |-> undefined ]      \* the form never sets budget_mode

\* zod runs the superRefine of an object schema only when no property failed
\* with a fatal issue (wrong type, value outside an enum)
SchemaShapeParses(values) ==
  /\ values.budget_mode \in {"total", "per_person"}
  /\ values.comfort_level \in {"budget", "medium", "premium"}
  /\ values.trip_goal \in {"need_recommendation", "know_destination"}
  /\ values.trip_type \in {"domestic", "international"}

Issue(path, failed) == IF failed THEN {path} ELSE {}

\* !data.destination_location || data.destination_location.trim().length === 0;
\* a request may leave the optional property out
DestinationBlank(values) ==
  \/ "destination_location" \notin DOMAIN values
  \/ Trim(values.destination_location) = <<>>

\* the refinement run whatever the properties' own issues are
SchemaIssuePaths_refineAlways(values) ==
  Issue("location", Trim(values.location) = <<>>)
  \cup Issue("number_of_people", values.number_of_people < 1)
  \cup Issue("budget_amount", values.budget_amount <= 0)
  \cup Issue("max_flight_hours",
              values.max_flight_hours < 1 \/ values.max_flight_hours > 24)
  \cup Issue("budget_mode", values.budget_mode \notin {"total", "per_person"})
  \cup Issue("comfort_level", values.comfort_level \notin {"budget", "medium", "premium"})
  \cup Issue("trip_goal",
              values.trip_goal \notin {"need_recommendation", "know_destination"})
  \cup Issue("trip_type", values.trip_type \notin {"domestic", "international"})
  \cup Issue("endDate",
              \/ values.startDate = NaN
              \/ values.endDate = NaN
              \/ values.endDate <= values.startDate)
  \cup Issue("destination_location",
              values.trip_goal = "know_destination" /\ DestinationBlank(values))

\* the paths with an issue when tripRequestSchema parses the values
SchemaIssuePaths(values) ==
  Issue("location", Trim(values.location) = <<>>)
  \cup Issue("number_of_people", values.number_of_people < 1)
  \cup Issue("budget_amount", values.budget_amount <= 0)
  \cup Issue("max_flight_hours",
              values.max_flight_hours < 1 \/ values.max_flight_hours > 24)
  \cup Issue("budget_mode", values.budget_mode \notin {"total", "per_person"})
  \cup Issue("comfort_level", values.comfort_level \notin {"budget", "medium", "premium"})
  \cup Issue("trip_goal",
              values.trip_goal \notin {"need_recommendation", "know_destination"})
  \cup Issue("trip_type", values.trip_type \notin {"domestic", "international"})
  \cup Issue("endDate",
              /\ SchemaShapeParses(values)
              /\ \/ values.startDate = NaN
                 \/ values.endDate = NaN
                 \/ values.endDate <= values.startDate)
  \cup Issue("destination_location",
              /\ SchemaShapeParses(values)
              /\ values.trip_goal = "know_destination"
              /\ DestinationBlank(values))

\* the fields nextStep validates on the given step
fieldsToValidate(step, values) ==
  IF step = 0
  THEN {"trip_goal", "location", "number_of_people", "includes_flights", "days",
        "companions", "currency", "budget_amount", "startDate", "endDate"}
       \cup (IF values.trip_goal # "know_destination" THEN {"trip_type"} ELSE {})
       \cup (IF values.trip_goal = "know_destination"
             THEN {"destination_location"} ELSE {})
       \cup (IF values.includes_flights /\ values.trip_goal # "know_destination"
             THEN {"max_flight_hours"} ELSE {})
  ELSE {}

\* validation that lets every form pass
trigger_always(step, values) == TRUE

\* form.trigger(fieldsToValidate)
trigger(step, values) ==
  fieldsToValidate(step, values) \cap SchemaIssuePaths(values) = {}

(***************************************************************************)
(* The step-0 budget analysis of nextStep (Home.tsx 426-477).              *)
(***************************************************************************)
\* Math.max(1, Math.ceil((end - start) / day)): Math.max of NaN is NaN
tripDays(values) ==
  IF values.startDate = NaN \/ values.endDate = NaN THEN NaN
  ELSE Max(1, values.endDate - values.startDate)

\* in paise
budgetInInr(values) ==
  LET rate == rateToInr(values.currency)
  IN  IF rate = NaN THEN NaN ELSE values.budget_amount * rate

effectiveTripType(values) ==
  IF values.trip_goal = "know_destination" /\ values.destination_location # <<>>
  THEN IF getCountryFromLocation(values.location)
            = getCountryFromLocation(values.destination_location)
       THEN "domestic" ELSE "international"
  ELSE values.trip_type

recommendedRangeInInr(values) ==
  estimateBudgetRangeInInr(
    [ days |-> tripDays(values), numberOfPeople |-> values.number_of_people,
      tripType |-> effectiveTripType(values), currency |-> values.currency,
      startLocation |-> values.location, comfortLevel |-> values.comfort_level,
      includesFlights |-> values.includes_flights,
      maxFlightHours |-> values.max_flight_hours ])

\* a range in INR as a range in paise
InPaise(r) ==
  IF r.low = NaN THEN r ELSE [low |-> r.low * 100, high |-> r.high * 100]

\* a premium comfort level never lowered by the analysis
derivedComfortLevel_keepPremium(values) ==
  IF values.comfort_level = "premium" THEN "premium"
  ELSE deriveBudgetTierFromRange(budgetInInr(values),
                                 InPaise(recommendedRangeInInr(values)))

derivedComfortLevel(values) ==
  deriveBudgetTierFromRange(budgetInInr(values), InPaise(recommendedRangeInInr(values)))

\* a budget equal to the low bound taken as below the range
budgetBelowRange_inclusive(values) ==
  Le(budgetInInr(values), InPaise(recommendedRangeInInr(values)).low)

\* budgetInInr < recommendedRangeInInr.low
budgetBelowRange(values) ==
  Lt(budgetInInr(values), InPaise(recommendedRangeInInr(values)).low)

\* budgetInInr >= recommendedRangeInInr.low * 0.75
closeToRange(values) ==
  /\ budgetInInr(values) # NaN /\ recommendedRangeInInr(values).low # NaN
  /\ budgetInInr(values) * 4 >= InPaise(recommendedRangeInInr(values)).low * 3

\* the 90% allowance dropped: no override once flights are included
tooInsufficientWithFlights_always(values) == values.includes_flights

\* values.includes_flights && budgetInInr < recommendedRangeInInr.low * 0.9
tooInsufficientWithFlights(values) ==
  /\ values.includes_flights
  /\ budgetInInr(values) # NaN /\ recommendedRangeInInr(values).low # NaN
  /\ budgetInInr(values) * 10 < InPaise(recommendedRangeInInr(values)).low * 9

BudgetLooksLow == "Your budget looks low for this setup."

(***************************************************************************)
(* Calls of the pure functions.  SpecEstimate draws the argument object    *)
(* from EstimateArgs, calls the estimator and then classifies a budget     *)
(* taken around the returned range.                                        *)
(***************************************************************************)
TripTypes == {"domestic", "international"}
ComfortLevels == {"low", "medium", "premium"}
EstCurrencies == {"INR", "USD", "AUD", "XYZ"}
EstFlightHours == {1, 6, 7, 11, 12, 24}
EstLocations ==
  { <<"Mumbai", ",", " ", "India">>,
    <<"USA">>,
    <<"Atlantis">>,
    <<>>,
    <<",", " ">>,
    <<"Paris", ",", "France">>,
    <<" ", "Dubai", ",", "UAE", " ", ",">>,
    <<"Sydney", ",", " ", "Australia">> }

EstimateArgs ==
  [ days : 0..MaxDays, numberOfPeople : 0..MaxPeople, tripType : TripTypes,
    currency : EstCurrencies, startLocation : EstLocations,
    comfortLevel : ComfortLevels, includesFlights : BOOLEAN,
    maxFlightHours : EstFlightHours ]

NoRange == [low |-> 0, high |-> 0]

\* the wizard as constructed (Home.tsx 339-388); the effects that run on mount
\* leave the default values as they are
WizardInit ==
  /\ form = DefaultValues
  /\ currentStep = 0
  /\ isAnalysingBasics = FALSE
  /\ budgetFeedback = null
  /\ allowProceedAnyway = FALSE
  /\ pc = "idle"
  /\ analysis = <<>>
  /\ edits = 0

\* the two fields with a suggestion lookup
Fields == {"location", "destination_location"}

\* a field as mounted (Home.tsx 340-353): empty, nothing looked up, no timer
\* and no request
FieldInit ==
  [ value |-> "", skipNextSearchRef |-> FALSE, suggestions |-> <<>>,
    suggestedFor |-> null, showSuggestions |-> FALSE, isLoading |-> FALSE,
    pending |-> {}, abortedQuery |-> null ]

\* step 1 as mounted (Home.tsx 349-351, 357-386): no options, nothing
\* selected, no request sent; food stands for the watched fields of step 1
\* (themes, food, weather), spontaneity for the personality sliders that no
\* effect watches
SubmitInit ==
  [ food |-> "Local Street Food", spontaneity |-> 3,
    destinationOptions |-> <<>>, selectedDestination |-> <<>>,
    isFindingDestinations |-> FALSE, recommend |-> <<>>, optionsFor |-> <<>>,
    isPending |-> FALSE, mutate |-> <<>>, location |-> "/" ]

\* the dependencies of the effect that resets the options (Home.tsx 688-698)
Watched(f, s) ==
  <<f.trip_goal, s.food, f.currency, f.budget_amount, f.startDate, f.endDate,
    f.location>>

\* setDestinationOptions([]); setSelectedDestination("")
ResetOptions(s) ==
  [s EXCEPT !.destinationOptions = <<>>, !.selectedDestination = <<>>,
            !.optionsFor = <<>>]

\* the effect runs when a watched value has changed (Home.tsx 685-698)
resetOptionsEffect(f, newForm, s) ==
  IF Watched(newForm, s) # Watched(f, s) THEN ResetOptions(s) ELSE s

\* no helper function called yet, no suggestion looked up
NoCall ==
  /\ submit = SubmitInit
  /\ call = [fn |-> "none"]
  /\ result = undefined
  /\ suggest = [f \in Fields |-> FieldInit]
  /\ tripGoalValue = "need_recommendation"
  /\ server = [pc |-> "idle"]

InitEstimate ==
  /\ tieUp \in BOOLEAN
  /\ phase = "init"
  /\ args \in EstimateArgs
  /\ range = NoRange
  /\ budget = 0
  /\ tier = "medium"
  /\ WizardInit
  /\ NoCall

CallEstimate ==
  /\ phase = "init"
  /\ range' = estimateBudgetRangeInInr(args)
  /\ phase' = "estimated"
  /\ UNCHANGED <<tieUp, submit, args, budget, tier, wizardVars, call, result, suggestVars, server>>

CallDerive ==
  /\ phase = "estimated"
  /\ \E b \in { range.low - 1, range.low, (range.low + range.high) \div 2,
                 range.high, range.high + 1 } :
        /\ budget' = b
        /\ tier' = deriveBudgetTierFromRange(b, range)
  /\ phase' = "derived"
  /\ UNCHANGED <<tieUp, submit, args, range, wizardVars, call, result, suggestVars, server>>

NextEstimate == CallEstimate \/ CallDerive

SpecEstimate == InitEstimate /\ [][NextEstimate]_vars

(***************************************************************************)
(* The wizard.  The user edits the fields of step 0, presses Next, Back    *)
(* and Proceed Anyway; the effects that watch a field run with the edit    *)
(* that changes it.                                                        *)
(***************************************************************************)
WizLocations == { <<>>, <<"Mumbai", ",", " ", "India">>, <<"Atlantis">> }
WizDestinations == { <<>>, <<"Pune", ",", " ", "India">>, <<"Paris", ",", "France">> }
\* currencies of the select whose rate is a whole number of rupees: for them
\* budget_amount * rate is exact in double arithmetic
WizCurrencies == {"INR", "USD"}
WizBudgets == {0, 150, 9000, 10500, 11220, 20000}
WizFlightHours == {8, 12}
WizCompanions == {"Solo", "Couple", "Friends Group"}
WizDates == 0..MaxDays
\* what the "To" field can hold: a date, or a non-empty string that new Date
\* cannot parse (the field takes any text where it is not a date picker)
WizEndDates == WizDates \cup {NaN}

\* String.prototype.toLowerCase on the country names of the model
toLowerCase(str) ==
  CASE str = "India" -> "india"
    [] str = "France" -> "france"
    [] str = "Atlantis" -> "atlantis"
    [] str = "United States" -> "united states"
    [] OTHER -> str

\* effect on [locationValue] (Home.tsx 678-683)
currencyEffect(f) ==
  [f EXCEPT !.currency = getSuggestedCurrencyFromLocation(f.location)]

\* effect on [tripGoalValue, locationValue, destinationValue] (Home.tsx 657-666)
tripTypeEffect(f) ==
  LET fromCountry == getCountryFromLocation(f.location)
      toCountry == getCountryFromLocation(f.destination_location)
  IN  IF f.trip_goal # "know_destination" THEN f
      ELSE IF fromCountry = undefined \/ toCountry = undefined THEN f
      ELSE [f EXCEPT !.trip_type =
              IF toLowerCase(fromCountry) = toLowerCase(toCountry)
              THEN "domestic" ELSE "international"]

\* no effect on the number of people
companionsEffect_none(f) == f

\* effect on [companionsValue] (Home.tsx 668-676)
companionsEffect(f) ==
  IF f.companions = "Solo" /\ f.number_of_people # 1
  THEN [f EXCEPT !.number_of_people = 1]
  ELSE IF f.companions = "Couple" /\ f.number_of_people # 2
  THEN [f EXCEPT !.number_of_people = 2]
  ELSE f

\* a user edit of a field of step 0 that leaves the form as newForm
Edit(newForm) ==
  /\ currentStep = 0
  /\ edits < MaxEdits
  /\ newForm # form
  /\ form' = newForm
  /\ analysis' = <<>>
  /\ edits' = edits + 1
  /\ submit' = resetOptionsEffect(form, newForm, submit)
  /\ UNCHANGED <<tieUp, callVars, currentStep, isAnalysingBasics, budgetFeedback,
                 allowProceedAnyway, pc>>

SetTripGoal ==
  \E g \in {"need_recommendation", "know_destination"} :
    Edit(tripTypeEffect([form EXCEPT !.trip_goal = g]))

SetTripType ==
  /\ form.trip_goal # "know_destination"
  /\ \E t \in TripTypes : Edit([form EXCEPT !.trip_type = t])

SetLocation ==
  \E l \in WizLocations :
    Edit(tripTypeEffect(currencyEffect([form EXCEPT !.location = l])))

SetDestination ==
  /\ form.trip_goal = "know_destination"
  /\ \E d \in WizDestinations :
       Edit(tripTypeEffect([form EXCEPT !.destination_location = d]))

SetCurrency ==
  \E c \in WizCurrencies : Edit([form EXCEPT !.currency = c])

SetBudgetAmount ==
  \E b \in WizBudgets : Edit([form EXCEPT !.budget_amount = b])

SetIncludesFlights ==
  \E val \in BOOLEAN : Edit([form EXCEPT !.includes_flights = val])

SetMaxFlightHours ==
  /\ form.includes_flights /\ form.trip_goal # "know_destination"
  /\ \E h \in WizFlightHours : Edit([form EXCEPT !.max_flight_hours = h])

\* onChange of the "From" date (Home.tsx 1026-1045)
SetStartDate ==
  \E selectedStart \in WizDates \ {MaxDays} :
    Edit(IF Le(form.endDate, selectedStart)
         THEN [form EXCEPT !.startDate = selectedStart, !.endDate = selectedStart + 1]
         ELSE [form EXCEPT !.startDate = selectedStart])

\* onChange of the "To" date (Home.tsx 1056-1064)
SetEndDate ==
  \E e \in WizEndDates : Edit([form EXCEPT !.endDate = e])

SetCompanions ==
  \E val \in WizCompanions : Edit(companionsEffect([form EXCEPT !.companions = val]))

\* the input is disabled for Solo and Couple (Home.tsx 1102-1111)
SetNumberOfPeople ==
  /\ form.companions \notin {"Solo", "Couple"}
  /\ \E n \in 1..MaxPeople : Edit([form EXCEPT !.number_of_people = n])

\* nextStep up to its delay (Home.tsx 390-424); the Next button is rendered on
\* step 0 and disabled while the analysis runs
NextPress ==
  /\ currentStep < Len(STEPS) - 1
  /\ ~isAnalysingBasics
  /\ pc = "idle"
  /\ IF ~trigger(currentStep, form)
     THEN UNCHANGED vars
     ELSE /\ isAnalysingBasics' = TRUE
          /\ budgetFeedback' = null
          /\ allowProceedAnyway' = FALSE
          /\ pc' = "analysing"
          /\ UNCHANGED <<tieUp, submit, callVars, form, currentStep, analysis, edits>>

\* nextStep after its delay (Home.tsx 426-481)
NextAnalysed ==
  /\ pc = "analysing"
  /\ LET values == form
         below == budgetBelowRange(values)
         allow == closeToRange(values) /\ ~tooInsufficientWithFlights(values)
     IN  /\ form' = [form EXCEPT !.comfort_level = derivedComfortLevel(values)]
         /\ IF below
            THEN /\ budgetFeedback' = BudgetLooksLow
                 /\ allowProceedAnyway' = allow
                 /\ UNCHANGED currentStep
            ELSE /\ currentStep' = Min(currentStep + 1, Len(STEPS) - 1)
                 /\ UNCHANGED <<budgetFeedback, allowProceedAnyway>>
         /\ analysis' = << [ days |-> tripDays(values),
                             budgetInInr |-> budgetInInr(values),
                             range |-> recommendedRangeInInr(values),
                             includes_flights |-> values.includes_flights,
                             comfort_level |-> values.comfort_level,
                             warned |-> below,
                             allowed |-> below /\ allow ] >>
  /\ isAnalysingBasics' = FALSE
  /\ pc' = "idle"
  /\ UNCHANGED <<tieUp, submit, callVars, edits>>

\* the Proceed Anyway button of the budget warning (Home.tsx 1125-1143)
ProceedAnyway ==
  /\ currentStep = 0
  /\ budgetFeedback # null
  /\ allowProceedAnyway
  /\ budgetFeedback' = null
  /\ currentStep' = Min(currentStep + 1, Len(STEPS) - 1)
  /\ UNCHANGED <<tieUp, submit, callVars, form, isAnalysingBasics, allowProceedAnyway,
                 pc, analysis, edits>>

\* the Back button (Home.tsx 484, 1289-1297)
prevStep ==
  /\ currentStep # 0
  /\ ~isAnalysingBasics
  /\ ~submit.isPending
  /\ currentStep' = Max(currentStep - 1, 0)
  /\ UNCHANGED <<tieUp, submit, callVars, form, isAnalysingBasics, budgetFeedback,
                 allowProceedAnyway, pc, analysis, edits>>

Init ==
  /\ tieUp \in BOOLEAN
  /\ phase = "init"
  /\ args = [ days |-> 1, numberOfPeople |-> 1, tripType |-> "domestic",
              currency |-> "INR", startLocation |-> <<>>, comfortLevel |-> "medium",
              includesFlights |-> TRUE, maxFlightHours |-> 8 ]
  /\ range = NoRange
  /\ budget = 0
  /\ tier = "medium"
  /\ WizardInit
  /\ NoCall

Next ==
  \/ SetTripGoal
  \/ SetTripType
  \/ SetLocation
  \/ SetDestination
  \/ SetCurrency
  \/ SetBudgetAmount
  \/ SetIncludesFlights
  \/ SetMaxFlightHours
  \/ SetStartDate
  \/ SetEndDate
  \/ SetCompanions
  \/ SetNumberOfPeople
  \/ NextPress
  \/ NextAnalysed
  \/ ProceedAnyway
  \/ prevStep

Spec == Init /\ [][Next]_vars

(***************************************************************************)
(* Calls of the helper functions on their own.  SpecLookup calls each      *)
(* helper with an argument of its parameter type: a location is any string *)
(* of at most MaxLocationTokens tokens.                                    *)
(***************************************************************************)
MaxLocationTokens == 4
LocationTokens == {",", " ", "India", "USA", "usa", "constructor", "Chennai"}
LookupLocations == UNION { [1..n -> LocationTokens] : n \in 0..MaxLocationTokens }
LookupCountries ==
  { undefined, "Japan", "japan", "Atlantis", "India", "United States", "USA",
    "constructor", "toString", "__proto__" }
LookupCurrencies == DOMAIN CURRENCY_TO_INR \cup {"XYZ", "usd", "constructor"}
LookupAmounts == {0, 1, 83, 1000}

InitLookup ==
  /\ tieUp = TRUE
  /\ phase = "init"
  /\ args = [ days |-> 1, numberOfPeople |-> 1, tripType |-> "domestic",
              currency |-> "INR", startLocation |-> <<>>, comfortLevel |-> "medium",
              includesFlights |-> TRUE, maxFlightHours |-> 8 ]
  /\ range = NoRange
  /\ budget = 0
  /\ tier = "medium"
  /\ WizardInit
  /\ NoCall

\* one call per behaviour: call' = c and result' = r, nothing else changed
Returns(c, r) ==
  /\ call.fn = "none"
  /\ call' = c
  /\ result' = r
  /\ UNCHANGED <<tieUp, submit, phase, args, range, budget, tier, wizardVars, suggestVars,
                 server>>

CallGetCountryFromLocation ==
  \E location \in LookupLocations :
    Returns([fn |-> "getCountryFromLocation", location |-> location],
            getCountryFromLocation(location))

CallGetRegionFromCountry ==
  \E country \in LookupCountries :
    Returns([fn |-> "getRegionFromCountry", country |-> country],
            getRegionFromCountry(country))

CallConvertInrToCurrency ==
  \E amountInInr \in LookupAmounts, currency \in LookupCurrencies :
    Returns([fn |-> "convertInrToCurrency", amount |-> amountInInr,
             currency |-> currency],
            convertInrToCurrency(amountInInr, currency))

\* values.budget_amount * (CURRENCY_TO_INR[values.currency] ?? 1) (Home.tsx 434)
CallBudgetInInr ==
  \E amount \in LookupAmounts, currency \in LookupCurrencies :
    Returns([fn |-> "budgetInInr", amount |-> amount, currency |-> currency],
            budgetInInr([DefaultValues EXCEPT !.budget_amount = amount,
                                              !.currency = currency]))

\* request bodies: the form's values with a budget_mode or not, a comfort level
\* of the schema or of the form, and the dates and destination of the claim
ParseRequests ==
  { [ r EXCEPT !.startDate = d[1], !.endDate = d[2] ] :
      r \in { [ DefaultValues EXCEPT !.location = <<"Mumbai", ",", " ", "India">>,
                                     !.budget_mode = m, !.comfort_level = k,
                                     !.trip_goal = g, !.destination_location = dest ] :
                m \in {"total", undefined}, k \in {"medium", "low"},
                g \in {"need_recommendation", "know_destination"},
                dest \in {<<>>, <<" ">>, <<"Paris", ",", "France">>} },
      d \in (WizDates \cup {NaN}) \X (WizDates \cup {NaN}) }

\* the same request bodies without the optional destination_location
WithoutDestination(r) == [ k \in DOMAIN r \ {"destination_location"} |-> r[k] ]

\* api.trips.generate.input.parse(req.body) (server/routes.ts 22, 116-123)
CallSchemaParse ==
  \E r \in ParseRequests, omit \in BOOLEAN :
    LET data == IF omit THEN WithoutDestination(r) ELSE r
    IN  Returns([fn |-> "tripRequestSchema.parse", data |-> data],
                SchemaIssuePaths(data))

CallGetCurrencyStrengthMultiplier ==
  \E currency \in LookupCurrencies :
    Returns([fn |-> "getCurrencyStrengthMultiplier", currency |-> currency],
            getCurrencyStrengthMultiplier(currency))

\* effectiveRecommendationTripType, the trip type of the destination labels
\* (Home.tsx 706-711)
effectiveRecommendationTripType(values) ==
  IF values.trip_goal = "know_destination" /\ values.destination_location # <<>>
  THEN IF getCountryFromLocation(values.location)
            = getCountryFromLocation(values.destination_location)
       THEN "domestic" ELSE "international"
  ELSE values.trip_type

\* inferredTripType of the server's generate route (routes.ts 205-214); the
\* request schema has trimmed both locations
inferredTripType(input) ==
  LET originCountry == getCountryFromLocation(Trim(input.location))
      destinationCountry ==
        IF Trim(input.destination_location) # <<>>
        THEN getCountryFromLocation(Trim(input.destination_location))
        ELSE undefined
  IN  IF /\ input.trip_goal = "know_destination"
         /\ Truthy(originCountry)
         /\ Truthy(destinationCountry)
      THEN IF toLowerCase(originCountry) = toLowerCase(destinationCountry)
           THEN "domestic" ELSE "international"
      ELSE input.trip_type

\* origins and destinations as typed or picked
TripTypeLocations ==
  { <<"Mumbai", ",", " ", "India">>, <<"Delhi", ",", " ", "india">>,
    <<"Pune", ",", " ", "India">>, <<"Paris", ",", "France">>, <<"Atlantis">>,
    <<"USA">>, <<"Austin", ",", "United States">>, <<",">>, <<" ">> }

\* the four trip types derived in know_destination mode once the form effect
\* has run on the typed origin and destination
CallTripTypes ==
  \E origin \in TripTypeLocations, destination \in TripTypeLocations,
     manual \in TripTypes :
    LET values == tripTypeEffect(
                    [DefaultValues EXCEPT !.trip_goal = "know_destination",
                                          !.trip_type = manual,
                                          !.location = origin,
                                          !.destination_location = destination])
    IN  Returns([fn |-> "tripTypes", origin |-> origin, destination |-> destination,
                 manual |-> manual],
                [budget |-> effectiveTripType(values),
                 effect |-> values.trip_type,
                 label |-> effectiveRecommendationTripType(values),
                 server |-> inferredTripType(values)])

NextLookup ==
  \/ CallTripTypes
  \/ CallGetCountryFromLocation
  \/ CallGetRegionFromCountry
  \/ CallConvertInrToCurrency
  \/ CallBudgetInInr
  \/ CallGetCurrencyStrengthMultiplier
  \/ CallSchemaParse

SpecLookup == InitLookup /\ [][NextLookup]_vars

(***************************************************************************)
(* The suggestion lookups of the two location fields (Home.tsx 579-655,    *)
(* 802-925).  Each run of a field's effect owns one debounce timer and one *)
(* AbortController; the field's state holds the timers and requests still  *)
(* alive in `pending`, each with the query it was made for.  suggestedFor  *)
(* records the query whose response filled the suggestions, abortedQuery   *)
(* the query of the request aborted last.                                  *)
(***************************************************************************)
InputValues == {"", "M", "Mu", "Mu ", "Mum", "Mumbai, India"}

\* value.trim()
TrimmedValue(value) == IF value = "Mu " THEN "Mu" ELSE value

\* query.length
Length(query) ==
  CASE query = "" -> 0
    [] query = "M" -> 1
    [] query = "Mu" -> 2
    [] query = "Mum" -> 3
    [] query = "Mumbai, India" -> 13

\* the suggestions a response can carry
ResponseLists == { <<>>, <<"Mumbai, India">> }

\* what the lookup's fetch can end with
FetchOutcomes == {"ok", "okWithoutSuggestions", "notOk", "throws"}

\* controller.abort() forgotten in the cleanup: no request is rejected
Aborted_none(pending) == {}

\* the requests that controller.abort() rejects: those still in flight
Aborted(pending) == { p \in pending : p.kind = "fetch" }

\* the cleanup of the previous run of the effect: clearTimeout and abort; an
\* aborted request rejects, its catch empties the suggestions and its finally
\* ends the loading state
Cleanup(s) ==
  LET aborted == Aborted(s.pending)
      alive == { p \in s.pending : p.kind = "fetch" } \ aborted
  IN  IF aborted = {} THEN [s EXCEPT !.pending = alive]
      ELSE [s EXCEPT !.pending = alive, !.suggestions = <<>>,
                     !.suggestedFor = null, !.isLoading = FALSE,
                     !.abortedQuery = (CHOOSE p \in aborted : TRUE).query]

\* a run of the effect of field f after a change of what it watches
SuggestionsEffect(f, s, goal) ==
  LET c == Cleanup(s)
      query == TrimmedValue(c.value)
  IN  IF c.skipNextSearchRef THEN [c EXCEPT !.skipNextSearchRef = FALSE]
      ELSE IF (f = "destination_location" /\ goal # "know_destination")
              \/ Length(query) < 2
      THEN [c EXCEPT !.suggestions = <<>>, !.suggestedFor = null,
                     !.showSuggestions = FALSE]
      ELSE [c EXCEPT !.pending = c.pending \cup {[kind |-> "timer", query |-> query]}]

\* the destination field is rendered in know_destination mode only
Rendered(f) == f = "location" \/ tripGoalValue = "know_destination"

SetField(f, s) ==
  /\ suggest' = [suggest EXCEPT ![f] = s]
  /\ UNCHANGED <<tieUp, submit, phase, args, range, budget, tier, call, result,
                 wizardVars, tripGoalValue, server>>

\* onChange of the input (Home.tsx 817-821, 882-886)
TypeValue ==
  \E f \in Fields, v \in InputValues :
    /\ Rendered(f)
    /\ v # suggest[f].value
    /\ SetField(f, SuggestionsEffect(f,
          [suggest[f] EXCEPT !.skipNextSearchRef = FALSE, !.value = v,
                             !.showSuggestions = TRUE], tripGoalValue))

\* the clear button (Home.tsx 823-836, 888-901)
ClearValue ==
  \E f \in Fields :
    /\ Rendered(f)
    /\ TrimmedValue(suggest[f].value) # ""
    /\ SetField(f, SuggestionsEffect(f,
          [suggest[f] EXCEPT !.skipNextSearchRef = FALSE, !.value = "",
                             !.suggestions = <<>>, !.suggestedFor = null,
                             !.showSuggestions = FALSE], tripGoalValue))

\* click on a displayed suggestion (Home.tsx 849-854, 914-919); the effect
\* runs when the value changes
PickSuggestion ==
  \E f \in Fields :
    /\ Rendered(f)
    /\ suggest[f].showSuggestions
    /\ \E i \in 1..Len(suggest[f].suggestions) :
         LET displayName == suggest[f].suggestions[i]
             picked == [suggest[f] EXCEPT !.skipNextSearchRef = TRUE,
                                          !.value = displayName,
                                          !.showSuggestions = FALSE,
                                          !.suggestions = <<>>,
                                          !.suggestedFor = null]
         IN  SetField(f, IF displayName # suggest[f].value
                         THEN SuggestionsEffect(f, picked, tripGoalValue)
                         ELSE picked)

\* onFocus and onBlur of the input (Home.tsx 815-816, 880-881)
FocusField ==
  \E f \in Fields :
    /\ Rendered(f)
    /\ SetField(f, [suggest[f] EXCEPT !.showSuggestions = suggest[f].suggestions # <<>>])

BlurField ==
  \E f \in Fields :
    /\ Rendered(f)
    /\ SetField(f, [suggest[f] EXCEPT !.showSuggestions = FALSE])

\* the debounce timer fires: the request is sent (Home.tsx 591-596, 630-635)
TimerFires ==
  \E f \in Fields :
    \E p \in suggest[f].pending :
      /\ p.kind = "timer"
      /\ SetField(f, [suggest[f] EXCEPT
                        !.isLoading = TRUE,
                        !.pending = (@ \ {p}) \cup {[kind |-> "fetch", query |-> p.query]}])

\* the request ends and the callback goes on (Home.tsx 597-609, 636-648)
FetchEnds ==
  \E f \in Fields :
    \E p \in suggest[f].pending, outcome \in FetchOutcomes, list \in ResponseLists :
      /\ p.kind = "fetch"
      /\ LET stored == IF outcome = "ok" THEN list ELSE <<>>
             s == [suggest[f] EXCEPT
                     !.suggestions = stored,
                     !.suggestedFor = IF stored = <<>> THEN null ELSE p.query,
                     !.isLoading = FALSE, !.pending = @ \ {p}]
         IN  SetField(f, IF outcome \in {"ok", "okWithoutSuggestions"}
                         THEN [s EXCEPT !.showSuggestions = stored # <<>>]
                         ELSE s)

\* the trip goal changes: the destination effect watches it
ChangeTripGoal ==
  \E g \in {"need_recommendation", "know_destination"} :
    /\ g # tripGoalValue
    /\ tripGoalValue' = g
    /\ suggest' = [suggest EXCEPT !["destination_location"] =
                     SuggestionsEffect("destination_location", @, g)]
    /\ UNCHANGED <<tieUp, submit, phase, args, range, budget, tier, call, result, wizardVars,
                   server>>

NextSuggest ==
  \/ TypeValue
  \/ ClearValue
  \/ PickSuggestion
  \/ FocusField
  \/ BlurField
  \/ TimerFires
  \/ FetchEnds
  \/ ChangeTripGoal

SpecSuggest == InitLookup /\ [][NextSuggest]_vars

(***************************************************************************)
(* The server's POST /api/recommend-destinations (routes.ts: the newer     *)
(* server routes with normalizeRecommendationPayload).  A number of the    *)
(* LLM's payload is held in units of 1/400, a score of the response in     *)
(* tenths; NaN is a value that is missing or no number.                    *)
(***************************************************************************)
MaxOptions == 4

\* Number(num.toFixed(1)) in tenths, of a number in units of 1/400; the double
\* nearest to a decimal tie lies on either side of it: tieUp
ToFixed1(num) ==
  LET q == num \div 40
      r == num % 40
  IN  IF r > 20 \/ (r = 20 /\ tieUp) THEN q + 1 ELSE q

\* toBoundedScore: 5 for a value that is no finite number, else the value
\* rounded to one decimal and clamped to 1..10
toBoundedScore(value) ==
  IF value = NaN THEN 50 ELSE Max(10, Min(100, ToFixed1(value)))

\* an option of the payload as normalizeRecommendationPayload maps it
NormalizedOption(option) ==
  LET vibeFit == toBoundedScore(option.vibe_fit)
      affordability == toBoundedScore(option.affordability)
      travelConvenience == toBoundedScore(NaN)        \* left out by the payloads
      safetyAccessibility == toBoundedScore(NaN)
      totalScore ==
        IF option.total_score # NaN THEN toBoundedScore(option.total_score)
        ELSE toBoundedScore(
               (vibeFit + affordability + travelConvenience + safetyAccessibility) * 10)
  IN  [ destination |-> option.destination,
        low |-> IF option.low = NaN THEN NaN ELSE Max(0, option.low),
        high |-> IF option.low = NaN \/ option.high = NaN THEN NaN
                 ELSE Max(Max(0, option.low), option.high),
        vibe_fit |-> vibeFit, affordability |-> affordability,
        travel_convenience |-> travelConvenience,
        safety_accessibility |-> safetyAccessibility,
        total_score |-> totalScore ]

\* the options left in the payload's order
SortByTotalScore_unsorted(options) == options

\* options.sort((a, b) => scoreB - scoreA): stable, highest total_score first
RECURSIVE SortByTotalScore(_)
SortByTotalScore(options) ==
  IF options = <<>> THEN <<>>
  ELSE LET rest == SortByTotalScore(Tail(options))
           before == SelectSeq(rest, LAMBDA o : o.total_score > Head(options).total_score)
           after == SelectSeq(rest, LAMBDA o : o.total_score <= Head(options).total_score)
       IN  before \o <<Head(options)>> \o after

\* normalizeRecommendationPayload: the first three options, mapped and sorted;
\* it throws on options that are no array and on an option that is null
normalizeRecommendationPayload(payload) ==
  LET options == IF payload.options = "missing" THEN <<>> ELSE payload.list
      firstThree == SubSeq(options, 1, Min(3, Len(options)))
  IN  IF payload.options = "notArray"
         \/ \E i \in 1..Len(firstThree) : firstThree[i].isNull
      THEN [threw |-> TRUE, options |-> <<>>]
      ELSE [threw |-> FALSE,
            options |-> SortByTotalScore(
                          [i \in 1..Len(firstThree) |-> NormalizedOption(firstThree[i])])]

\* destinationRecommendationResponseSchema.parse: exactly three options, every
\* number a number (shared/schema.ts 98-118)
ResponseSchemaParses(normalized) ==
  /\ Len(normalized.options) = 3
  /\ \A i \in 1..Len(normalized.options) :
        /\ normalized.options[i].low # NaN
        /\ normalized.options[i].high # NaN
        /\ \A m \in {"vibe_fit", "affordability", "travel_convenience",
                       "safety_accessibility", "total_score"} :
              normalized.options[i][m] \in 10..100

\* the options an LLM payload can hold
PayloadOptions ==
  { [ isNull |-> FALSE, destination |-> "Goa", low |-> 0, high |-> 0, vibe_fit |-> v,
      affordability |-> NaN, total_score |-> t ] :
      v \in {NaN, 3600}, t \in {NaN, 1200, 2900, 6000} }
  \cup { [ isNull |-> TRUE, destination |-> "", low |-> 0, high |-> 0,
           vibe_fit |-> NaN, affordability |-> NaN, total_score |-> NaN ],
         \* an element that is no object, or an empty one: every property missing
         [ isNull |-> FALSE, destination |-> "", low |-> 0, high |-> 0,
           vibe_fit |-> NaN, affordability |-> NaN, total_score |-> NaN ],
         \* a budget whose high is below its low
         [ isNull |-> FALSE, destination |-> "Goa", low |-> 500, high |-> 100,
           vibe_fit |-> NaN, affordability |-> 40, total_score |-> NaN ],
         \* a budget whose low is no number: Number("abc")
         [ isNull |-> FALSE, destination |-> "Goa", low |-> NaN, high |-> 0,
           vibe_fit |-> NaN, affordability |-> NaN, total_score |-> 1200 ] }

\* what JSON.parse(content) can give: it throws, or gives null, or gives an
\* object with options missing, no array, or an array
LlmContents ==
  { [kind |-> k, options |-> "missing", list |-> <<>>] :
      k \in {"empty", "invalidJson", "null", "object"} }
  \cup { [kind |-> "object", options |-> "notArray", list |-> <<>>] }
  \cup { [kind |-> "object", options |-> "array", list |-> l] :
           l \in UNION { [1..n -> PayloadOptions] : n \in 0..MaxOptions } }

\* no content reached the route
NoContent == [kind |-> "none", options |-> "missing", list |-> <<>>]

Responds(route, request, content, response) ==
  /\ server' = [pc |-> "done", route |-> route, request |-> request,
                content |-> content, response |-> response]
  /\ UNCHANGED <<tieUp, submit, phase, args, range, budget, tier, call, result, wizardVars,
                 suggestVars>>

\* the route up to the call of the LLM (routes.ts 411-432): the request body
\* is parsed and the API key looked up
RecommendRequest ==
  /\ server.pc = "idle"
  /\ \E body \in {"valid", "invalid"}, apiKey \in BOOLEAN :
       IF body = "invalid"
       THEN Responds("recommend", body, NoContent, [status |-> 400])
       ELSE IF ~apiKey
       THEN Responds("recommend", body, NoContent, [status |-> 500])
       ELSE /\ server' = [pc |-> "llm", route |-> "recommend", request |-> body]
            /\ UNCHANGED <<tieUp, submit, phase, args, range, budget, tier, call, result,
                           wizardVars, suggestVars>>

\* the LLM answers with content (routes.ts 486-499, 500-509)
LlmAnswers ==
  /\ server.pc = "llm"
  /\ \E content \in LlmContents :
       LET normalized == normalizeRecommendationPayload(content)
       IN  Responds("recommend", server.request, content,
             IF content.kind \in {"empty", "invalidJson", "null"} \/ normalized.threw
             THEN [status |-> 500]
             ELSE IF ~ResponseSchemaParses(normalized)
             THEN [status |-> 400]
             ELSE [status |-> 200, options |-> normalized.options])

\* the call of the LLM throws
LlmFails ==
  /\ server.pc = "llm"
  /\ Responds("recommend", server.request, NoContent, [status |-> 500])

(***************************************************************************)
(* The server's GET /api/location-suggestions (routes.ts 125-170).         *)
(***************************************************************************)
MaxResults == 3

\* new Intl.DisplayNames(["en"], {type: "region"}).of(code): the region's
\* English name; a code that is no region subtag throws a RangeError
RegionDisplayName(code) ==
  CASE code = "IN" -> <<"India">>
    [] code = "US" -> <<"United States">>
    [] OTHER -> "<RangeError>"

\* the results the geocoding service can list: name, country and country_code
\* present or not, or an element that is null
GeoResults ==
  { [isNull |-> FALSE, name |-> n, country |-> c, country_code |-> cc] :
      n \in {"", "Mumbai"}, c \in {<<>>, <<"India">>, <<"USA">>},
      cc \in {"", "IN", "US", "1"} }
  \cup { [isNull |-> TRUE, name |-> "", country |-> <<>>, country_code |-> ""] }

\* how the fetch of the geocoding service can end
GeoOutcomes ==
  { [kind |-> k, results |-> "missing", list |-> <<>>] :
      k \in {"fetchThrows", "notOk", "jsonThrows", "null", "object"} }
  \cup { [kind |-> "object", results |-> "notArray", list |-> <<>>] }
  \cup { [kind |-> "object", results |-> "array", list |-> l] :
           l \in UNION { [1..n -> GeoResults] : n \in 0..MaxResults } }

\* .filter((result) => result.name && result.country)
NamedResults(list) == SelectSeq(list, LAMBDA r : r.name # "" /\ r.country # <<>>)

\* the .map callback: city, canonical country and display name of a result
Suggestion(r) ==
  LET canonicalCountry ==
        normalizeCountryName(IF r.country_code # ""
                             THEN RegionDisplayName(r.country_code) ELSE r.country)
  IN  [city |-> r.name, country |-> canonicalCountry,
       displayName |-> <<r.name, ", ", canonicalCountry>>]

\* .filter(arr.findIndex(same displayName) === index): the first of each name
RECURSIVE FirstOfEachName(_, _)
FirstOfEachName(arr, seen) ==
  IF arr = <<>> THEN <<>>
  ELSE IF Head(arr).displayName \in seen THEN FirstOfEachName(Tail(arr), seen)
  ELSE <<Head(arr)>> \o FirstOfEachName(Tail(arr), seen \cup {Head(arr).displayName})

\* something in the try block throws: the fetch, response.json(), a property
\* read of null, .filter of no array, or DisplayNames.of
Throws(outcome) ==
  \/ outcome.kind \in {"fetchThrows", "jsonThrows", "null"}
  \/ outcome.results = "notArray"
  \/ \E i \in 1..Len(outcome.list) : outcome.list[i].isNull
  \/ \E i \in 1..Len(NamedResults(outcome.list)) :
        /\ NamedResults(outcome.list)[i].country_code # ""
        /\ RegionDisplayName(NamedResults(outcome.list)[i].country_code) = "<RangeError>"

\* the failure is passed on to the framework
Caught_propagates(error) == [status |-> 500]

\* catch (error): res.json({ suggestions: [] })
Caught(error) == [status |-> 200, suggestions |-> <<>>]

\* the route up to the fetch: queries shorter than 2 characters are answered
\* at once
SuggestionsRequest ==
  /\ server.pc = "idle"
  /\ \E value \in InputValues :
       LET query == TrimmedValue(value)
       IN  IF Length(query) < 2
           THEN Responds("suggestions", query, [kind |-> "none"],
                         [status |-> 200, suggestions |-> <<>>])
           ELSE /\ server' = [pc |-> "geocoding", route |-> "suggestions",
                              request |-> query]
                /\ UNCHANGED <<tieUp, submit, phase, args, range, budget, tier, call, result,
                               wizardVars, suggestVars>>

\* the fetch ends and the route answers
GeocodingEnds ==
  /\ server.pc = "geocoding"
  /\ \E outcome \in GeoOutcomes :
       Responds("suggestions", server.request, outcome,
         IF Throws(outcome) THEN Caught(outcome.kind)
         ELSE IF outcome.kind = "notOk" THEN [status |-> 200, suggestions |-> <<>>]
         ELSE [status |-> 200,
               suggestions |->
                 LET named == NamedResults(outcome.list)
                 IN  FirstOfEachName([i \in 1..Len(named) |-> Suggestion(named[i])], {})])

NextServer ==
  \/ RecommendRequest
  \/ LlmAnswers
  \/ LlmFails
  \/ SuggestionsRequest
  \/ GeocodingEnds

InitServer ==
  /\ tieUp \in BOOLEAN
  /\ phase = "init"
  /\ args = [ days |-> 1, numberOfPeople |-> 1, tripType |-> "domestic",
              currency |-> "INR", startLocation |-> <<>>, comfortLevel |-> "medium",
              includesFlights |-> TRUE, maxFlightHours |-> 8 ]
  /\ range = NoRange
  /\ budget = 0
  /\ tier = "medium"
  /\ WizardInit
  /\ NoCall

SpecServer == InitServer /\ [][NextServer]_vars

(***************************************************************************)
(* The submit of the wizard's last step (Home.tsx 486-546, 685-698,        *)
(* 1243-1270, 1316-1340).  form.handleSubmit passes the form's values to   *)
(* onSubmit when the resolver accepts them; onSubmit is modelled for every *)
(* form, whatever the resolver's schema says of it.  A destination label   *)
(* is the sequence of its parts, like a location.                          *)
(***************************************************************************)
\* the options a successful recommendation response can list: the response
\* schema admits exactly three, each with strings that may be empty
DestinationOptions ==
  { [destination |-> "Goa", country |-> "India"],
    [destination |-> "", country |-> ""] }

\* getDestinationSelectionLabel (Home.tsx 486-494)
getDestinationSelectionLabel(option, tripType) ==
  IF tripType = "international"
  THEN IF option.country # "" THEN <<option.country>>
       ELSE IF option.destination # "" THEN <<option.destination>> ELSE <<>>
  ELSE <<option.destination, ",", " ", option.country>>

\* the data handleSubmit passes to onSubmit: the values of both steps
SubmitData(f, s) == [form |-> f, food |-> s.food, spontaneity |-> s.spontaneity]

\* the request sent with the form's data as it is
GenerationData_asIs(data, selectedDestination) == data

\* {...data, trip_goal: "know_destination", destination_location: selected}
GenerationData(data, selectedDestination) ==
  [data EXCEPT !.form.trip_goal = "know_destination",
               !.form.destination_location = selectedDestination]

\* onSubmit up to its first await (Home.tsx 496-546); the button is rendered
\* on the last step and disabled while a request is pending
Submit ==
  /\ currentStep = Len(STEPS) - 1
  /\ submit.location = "/"
  /\ ~submit.isPending
  /\ ~submit.isFindingDestinations
  /\ LET data == SubmitData(form, submit)
     IN  IF form.trip_goal = "need_recommendation"
         THEN IF submit.destinationOptions = <<>>
              THEN submit' = [submit EXCEPT
                     !.isFindingDestinations = TRUE,
                     !.recommend = << [data |-> data,
                                       tripType |-> effectiveRecommendationTripType(form)] >>]
              ELSE IF submit.selectedDestination = <<>>
              THEN UNCHANGED submit
              ELSE submit' = [submit EXCEPT
                     !.isPending = TRUE,
                     !.mutate = <<GenerationData(data, submit.selectedDestination)>>]
         ELSE submit' = [submit EXCEPT !.isPending = TRUE, !.mutate = <<data>>]
  /\ UNCHANGED <<tieUp, callVars, wizardVars>>

\* the recommendation request ends (Home.tsx 505-528): with a response that is
\* not ok or does not parse nothing is stored, else the options are stored
\* and the first one is selected
RecommendEnds ==
  /\ submit.recommend # <<>>
  /\ \/ submit' = [submit EXCEPT !.isFindingDestinations = FALSE, !.recommend = <<>>]
     \/ \E options \in [1..3 -> DestinationOptions] :
          submit' = [submit EXCEPT
            !.isFindingDestinations = FALSE, !.recommend = <<>>,
            !.destinationOptions = options,
            !.selectedDestination =
               getDestinationSelectionLabel(options[1], submit.recommend[1].tripType),
            !.optionsFor = <<submit.recommend[1].data>>]
  /\ UNCHANGED <<tieUp, callVars, wizardVars>>

\* a click on an option of the list (Home.tsx 1243-1262)
SelectDestination ==
  /\ currentStep = 1
  /\ submit.location = "/"
  /\ form.trip_goal = "need_recommendation"
  /\ \E i \in 1..Len(submit.destinationOptions) :
       submit' = [submit EXCEPT !.selectedDestination =
                    getDestinationSelectionLabel(submit.destinationOptions[i],
                                                 effectiveRecommendationTripType(form))]
  /\ UNCHANGED <<tieUp, callVars, wizardVars>>

\* an edit of a field of step 1 that the reset effect watches
SetFood ==
  /\ currentStep = 1
  /\ submit.location = "/"
  /\ edits < MaxEdits
  /\ \E val \in {"Local Street Food", "Vegetarian"} \ {submit.food} :
       submit' = ResetOptions([submit EXCEPT !.food = val])
  /\ edits' = edits + 1
  /\ UNCHANGED <<tieUp, callVars, form, currentStep, isAnalysingBasics, budgetFeedback,
                 allowProceedAnyway, pc, analysis>>

\* an edit of a field of step 1 that no effect watches
SetSpontaneity ==
  /\ currentStep = 1
  /\ submit.location = "/"
  /\ edits < MaxEdits
  /\ \E val \in {3, 4} \ {submit.spontaneity} :
       submit' = [submit EXCEPT !.spontaneity = val]
  /\ edits' = edits + 1
  /\ UNCHANGED <<tieUp, callVars, form, currentStep, isAnalysingBasics, budgetFeedback,
                 allowProceedAnyway, pc, analysis>>

\* the generation request fails: onError (use-trips.ts 41-47)
GenerateFails ==
  /\ submit.isPending
  /\ submit.location = "/"
  /\ submit' = [submit EXCEPT !.isPending = FALSE, !.mutate = <<>>]
  /\ UNCHANGED <<tieUp, callVars, wizardVars>>

\* the generation request succeeds: onSuccess leaves the page
\* (use-trips.ts 28-40)
GenerateSucceeds ==
  /\ submit.isPending
  /\ submit.location = "/"
  /\ submit' = [submit EXCEPT !.location = "/results"]
  /\ UNCHANGED <<tieUp, callVars, wizardVars>>

NextSubmit ==
  \/ SetTripGoal
  \/ SetLocation
  \/ SetBudgetAmount
  \/ SetCompanions
  \/ NextPress
  \/ NextAnalysed
  \/ prevStep
  \/ Submit
  \/ RecommendEnds
  \/ SelectDestination
  \/ SetFood
  \/ SetSpontaneity
  \/ GenerateFails
  \/ GenerateSucceeds

SpecSubmit == Init /\ [][NextSubmit]_vars

(***************************************************************************)
(* The estimate as the specification words it: bands, multipliers and the  *)
(* rounded product, written from the specification's sentences.            *)
(***************************************************************************)
StatedBands(tripType) ==
  IF tripType = "domestic"
  THEN [perDayLow |-> 1200, fixedLow |-> 3000, perDayHigh |-> 3000, fixedHigh |-> 8000]
  ELSE [perDayLow |-> 2500, fixedLow |-> 12000, perDayHigh |-> 6500, fixedHigh |-> 30000]

\* round(travelers * (days * perDay + fixed) * g * c * k * f * d), both bands
StatedRange(a, g, c, k, f, d) ==
  LET b == StatedBands(a.tripType)
      travelers == Max(1, a.numberOfPeople)
  IN  [ low  |-> MathRound(MulAll(Limbs(travelers * (a.days * b.perDayLow + b.fixedLow)),
                                  <<g, c, k, f, d>>)),
        high |-> MathRound(MulAll(Limbs(travelers * (a.days * b.perDayHigh + b.fixedHigh)),
                                  <<g, c, k, f, d>>)) ]

StatedGeo(a) ==
  LET country == getCountryFromLocation(a.startLocation)
  IN  IF a.tripType = "domestic"
      THEN IF country \in DOMAIN DOMESTIC_COST_MULTIPLIER_BY_COUNTRY
           THEN DOMESTIC_COST_MULTIPLIER_BY_COUNTRY[country] ELSE 100
      ELSE IF country \in DOMAIN COUNTRY_REGION
           THEN getInternationalOriginMultiplier(country) ELSE 110

StatedComfort(a) ==
  CASE a.comfortLevel = "low" -> 85
    [] a.comfortLevel = "medium" -> 100
    [] a.comfortLevel = "premium" -> 135

StatedFlightInclusion(a) == IF a.includesFlights THEN 100 ELSE 78

StatedCurrency(a) ==
  IF a.tripType = "domestic" THEN 100
  ELSE IF a.currency \in {"USD", "EUR", "GBP"} THEN 90
  ELSE IF a.currency \in {"INR", "JPY"} THEN 110
  ELSE 100

StatedDuration(a) ==
  IF a.tripType = "domestic" THEN 100
  ELSE IF a.maxFlightHours <= 6 THEN 90
  ELSE IF a.maxFlightHours >= 12 THEN 110
  ELSE 100

Called == phase # "init"

\* C1: for days >= 1 and numberOfPeople >= 1 the estimated range has low <= high
Thm_C1 ==
  (Called /\ args.days >= 1 /\ args.numberOfPeople >= 1) => range.low <= range.high

Wit_C1 ==
  /\ phase = "estimated" /\ args.days >= 1 /\ args.numberOfPeople >= 1
  /\ args.tripType = "domestic" /\ range.low < range.high

\* C2: the estimate is the rounded product of travelers * (days * perDay + fixed)
\* and the five multipliers, with the stated bands, geo defaults (1.0 domestic,
\* 1.1 international), comfort 0.85 / 1.0 / 1.35 and flight inclusion 0.78 / 1.0
Thm_C2 ==
  Called =>
    range = StatedRange(args, StatedGeo(args), StatedCurrency(args),
                        StatedComfort(args), StatedFlightInclusion(args),
                        StatedDuration(args))

Wit_C2 ==
  /\ phase = "estimated" /\ args.tripType = "international"
  /\ args.startLocation = <<"USA">> /\ args.comfortLevel = "premium"
  /\ ~args.includesFlights /\ args.maxFlightHours = 12 /\ args.days = 2
  /\ range.low > 0

\* C3: domestic trip from "Mumbai, India", 3 days, 2 travelers, flights excluded
IsC3Trip(comfortLevel) ==
  /\ Called
  /\ args.tripType = "domestic"
  /\ args.startLocation = <<"Mumbai", ",", " ", "India">>
  /\ args.days = 3 /\ args.numberOfPeople = 2
  /\ args.comfortLevel = comfortLevel /\ ~args.includesFlights

C3StatedLow == MathRound(MulAll(Limbs(2 * (3 * 1200 + 3000)), <<85, 100, 85, 78, 100>>))
C3StatedHigh == MathRound(MulAll(Limbs(2 * (3 * 3000 + 8000)), <<85, 100, 85, 78, 100>>))

\* C3 as stated: with medium comfort the range is
\* round(2*(3*1200+3000)*0.85*1*0.85*0.78) .. round(2*(3*3000+8000)*0.85*1*0.85*0.78)
Orig_C3 ==
  IsC3Trip("medium") => range = [low |-> C3StatedLow, high |-> C3StatedHigh]

\* C3 amended: with medium comfort the comfort factor is 1.0, the range is
\* round(2*(3*1200+3000)*0.85*1*1*0.78) .. round(2*(3*3000+8000)*0.85*1*1*0.78);
\* the stated product, with comfort factor 0.85, is the range for low comfort
Thm_C3 ==
  /\ IsC3Trip("medium") =>
        range = [ low  |-> MathRound(MulAll(Limbs(2 * (3 * 1200 + 3000)),
                                            <<85, 100, 100, 78, 100>>)),
                  high |-> MathRound(MulAll(Limbs(2 * (3 * 3000 + 8000)),
                                            <<85, 100, 100, 78, 100>>)) ]
  /\ IsC3Trip("low") => range = [low |-> C3StatedLow, high |-> C3StatedHigh]

Wit_C3 ==
  /\ phase = "estimated" /\ IsC3Trip("medium")
  /\ range = [low |-> 8752, high |-> 22542]

\* C4: the tier is "low" exactly below range.low, "premium" exactly above
\* range.high and "medium" otherwise, the two bounds included
Thm_C4 ==
  phase = "derived" =>
    /\ tier = "low" <=> budget < range.low
    /\ tier = "premium" <=> budget > range.high
    /\ tier = "medium" <=> (budget >= range.low /\ budget <= range.high)
    /\ budget \in {range.low, range.high} => tier = "medium"
    /\ budget = range.low - 1 => tier = "low"
    /\ budget = range.high + 1 => tier = "premium"

Wit_C4 == phase = "derived" /\ budget = range.high /\ tier = "medium"

\* C9: a domestic estimate is the same for every currency and every
\* maxFlightHours; an international estimate carries the currency factor
\* 0.9 / 1.1 / 1.0 (strong / weak / medium) and the duration factor
\* 0.9 (<= 6 h) / 1.1 (>= 12 h) / 1.0
Thm_C9 ==
  Called =>
    /\ args.tripType = "domestic" =>
          \A c \in EstCurrencies, h \in EstFlightHours :
            estimateBudgetRangeInInr([args EXCEPT !.currency = c,
                                                  !.maxFlightHours = h]) = range
    /\ (args.tripType = "international" /\ args.currency \in DOMAIN CURRENCY_STRENGTH) =>
          range = StatedRange(args,
                    geoMultiplier(FALSE, getCountryFromLocation(args.startLocation)),
                    StatedCurrency(args), comfortMultiplier(args.comfortLevel),
                    flightBudgetMultiplier(args.includesFlights),
                    StatedDuration(args))

Wit_C9 ==
  /\ phase = "estimated" /\ args.tripType = "domestic"
  /\ args.currency = "USD" /\ args.maxFlightHours = 12 /\ range.low > 0

\* the origin country resolves to no entry of the table the trip type uses
UnresolvedOrigin(a) ==
  LET country == getCountryFromLocation(a.startLocation)
  IN  IF a.tripType = "domestic"
      THEN country \notin DOMAIN DOMESTIC_COST_MULTIPLIER_BY_COUNTRY
      ELSE country \notin DOMAIN COUNTRY_REGION

UnresolvedCurrency(a) == a.currency \notin DOMAIN CURRENCY_STRENGTH

\* the estimate of a with geo multiplier g (when useG) and currency multiplier 1.0
\* (when neutralCurrency), the other multipliers as the estimator takes them
RangeWithNeutral(a, useG, g, neutralCurrency) ==
  StatedRange(a,
    IF useG THEN g
    ELSE geoMultiplier(a.tripType = "domestic", getCountryFromLocation(a.startLocation)),
    IF neutralCurrency THEN 100
    ELSE currencyMultiplier(a.tripType = "domestic", a.currency),
    comfortMultiplier(a.comfortLevel), flightBudgetMultiplier(a.includesFlights),
    flightDurationMultiplier(a.tripType, a.maxFlightHours))

\* C10 as stated: every unresolvable lookup (origin country, currency)
\* contributes the multiplier 1.0, and the estimator returns a range
Orig_C10 ==
  Called =>
    /\ UnresolvedOrigin(args) => range = RangeWithNeutral(args, TRUE, 100, FALSE)
    /\ UnresolvedCurrency(args) => range = RangeWithNeutral(args, FALSE, 100, TRUE)
    /\ range \in [low : Nat, high : Nat]

\* C10 amended: an unresolvable currency contributes 1.0; an unresolvable
\* origin country contributes 1.0 on a domestic trip and the "global" region's
\* 1.1 on an international trip; the estimator always returns a range
Thm_C10 ==
  Called =>
    /\ UnresolvedOrigin(args) =>
          range = RangeWithNeutral(args, TRUE,
                    IF args.tripType = "domestic" THEN 100 ELSE 110, FALSE)
    /\ UnresolvedCurrency(args) => range = RangeWithNeutral(args, FALSE, 100, TRUE)
    /\ range \in [low : Nat, high : Nat]

Wit_C10 ==
  /\ phase = "estimated" /\ args.tripType = "international"
  /\ args.startLocation = <<"Atlantis">> /\ args.currency = "XYZ"
  /\ range.low > 0

(***************************************************************************)
(* The step-0 budget analysis: the step in which nextStep completes an     *)
(* analysis, and what that analysis computed.                              *)
(***************************************************************************)
AnalysisCompletes == pc = "analysing" /\ pc' = "idle"

AnalysedBelowLow(a) == a.budgetInInr < a.range.low * 100

\* the wizard is idle right after an analysis, no field edited since
Analysed == pc = "idle" /\ analysis # <<>>

\* C5: an analysis that finds the budget below range.low leaves the wizard on
\* step 0 with the warning shown; one that finds it >= range.low moves the
\* wizard to step 1 with no warning
Thm_C5 ==
  [][ AnalysisCompletes =>
        LET a == analysis'[1]
        IN  /\ AnalysedBelowLow(a) => (currentStep' = 0 /\ budgetFeedback' # null)
            /\ ~AnalysedBelowLow(a) => (currentStep' = 1 /\ budgetFeedback' = null)
    ]_vars

Wit_C5 ==
  /\ Analysed /\ ~AnalysedBelowLow(analysis[1])
  /\ analysis[1].budgetInInr = analysis[1].range.low * 100
  /\ currentStep = 1 /\ budgetFeedback = null

OverrideOffered == budgetFeedback # null /\ allowProceedAnyway

\* C6 as stated: after an analysis that finds the budget below range.low the
\* override is offered iff the budget is at least 75% of range.low and flights
\* are not included
Orig_C6 ==
  [][ (AnalysisCompletes /\ AnalysedBelowLow(analysis'[1])) =>
        LET a == analysis'[1]
        IN  OverrideOffered' <=>
              (a.budgetInInr * 4 >= a.range.low * 100 * 3 /\ ~a.includes_flights)
    ]_vars

\* C6 amended: the override is offered iff the budget is at least 75% of
\* range.low and, when flights are included, also at least 90% of range.low
Thm_C6 ==
  [][ (AnalysisCompletes /\ AnalysedBelowLow(analysis'[1])) =>
        LET a == analysis'[1]
        IN  OverrideOffered' <=>
              /\ a.budgetInInr * 4 >= a.range.low * 100 * 3
              /\ a.includes_flights => a.budgetInInr * 10 >= a.range.low * 100 * 9
    ]_vars

Wit_C6 ==
  /\ Analysed /\ AnalysedBelowLow(analysis[1]) /\ analysis[1].includes_flights
  /\ currentStep = 0 /\ OverrideOffered

\* C7 as stated: a Next press that follows an analysis with no field edited
\* in between computes the same range and ends the same way
Orig_C7 ==
  [][ (AnalysisCompletes /\ analysis # <<>>) =>
        /\ analysis'[1].range = analysis[1].range
        /\ analysis'[1].warned = analysis[1].warned
        /\ analysis'[1].allowed = analysis[1].allowed
    ]_vars

\* C8: a completed analysis leaves comfort_level at the tier of the budget
\* in the range it computed, whatever comfort_level was before
Thm_C8 ==
  [][ AnalysisCompletes =>
        form'.comfort_level =
          deriveBudgetTierFromRange(analysis'[1].budgetInInr,
                                    InPaise(analysis'[1].range))
    ]_vars

Wit_C8 ==
  /\ Analysed /\ analysis[1].comfort_level = "premium"
  /\ form.comfort_level = "low"

\* C14 as stated: the count of days a completed analysis derived from the
\* dates of the form is an integer >= 1, also when the end date is not after
\* the start date or a date is unparsable
Orig_C14 ==
  analysis # <<>> => (analysis[1].days # NaN /\ analysis[1].days >= 1)

(***************************************************************************)
(* The helper functions on their own.                                      *)
(***************************************************************************)
\* the last non-empty trimmed segment, replaced by its alias when the alias
\* table has it as a key
StatedCountry(location) ==
  LET parts == TrimmedParts(location)
      last == Join(parts[Len(parts)])
  IN  IF parts = <<>> THEN undefined
      ELSE IF last \in DOMAIN COUNTRY_ALIASES THEN COUNTRY_ALIASES[last]
      ELSE last

\* C11 as stated: getCountryFromLocation returns undefined for a location with
\* no non-empty segment and otherwise the last non-empty trimmed segment, or
\* its alias when the segment is exactly a key of the alias table
Orig_C11 ==
  call.fn = "getCountryFromLocation" =>
    /\ result = StatedCountry(call.location)
    /\ call.location = <<"Chennai", ",", " ", "India">> => result = "India"
    /\ call.location = <<"USA">> => result = "United States"
    /\ call.location = <<"usa">> => result = "usa"
    /\ call.location \in {<<>>, <<",">>, <<" ", ",", " ">>} => result = undefined

Regions ==
  { "asia", "europe", "oceania", "north_america", "south_america", "africa",
    "middle_east", "global" }

\* C12 as stated: getRegionFromCountry returns one of the eight tags, and
\* "global" for every country that is not a key of COUNTRY_REGION
Orig_C12 ==
  call.fn = "getRegionFromCountry" =>
    /\ result \in Regions
    /\ call.country \notin DOMAIN COUNTRY_REGION => result = "global"
    /\ call.country = "Japan" => result = "asia"

\* the rate of the claim, in hundredths: the table's rate, 1 for another code
StatedRate(currency) ==
  IF currency \in DOMAIN CURRENCY_TO_INR THEN CURRENCY_TO_INR[currency] ELSE 100

\* C13 as stated: both conversions use the table's rate, and rate 1 for a code
\* the table does not have; the strength multiplier of a code that the strength
\* table does not have is 1.0
Orig_C13 ==
  /\ call.fn = "convertInrToCurrency" =>
        /\ result.den # 0
        /\ result.num * StatedRate(call.currency) = call.amount * 100 * result.den
  /\ call.fn = "budgetInInr" =>
        result = call.amount * StatedRate(call.currency)
  /\ (call.fn = "getCurrencyStrengthMultiplier"
        /\ call.currency \notin DOMAIN CURRENCY_STRENGTH) => result = 100

Parsed == call.fn = "tripRequestSchema.parse"

\* the end date is not strictly after the start date, or a date is unparsable
DateDefect(data) ==
  data.startDate = NaN \/ data.endDate = NaN \/ data.endDate <= data.startDate

\* trip_goal is know_destination and the destination is missing or blank
DestinationDefect(data) ==
  /\ data.trip_goal = "know_destination"
  /\ \/ "destination_location" \notin DOMAIN data
     \/ data.destination_location \in {<<>>, <<" ">>}

\* every property of the request has a value of its type and of its enum
WellTyped(data) ==
  /\ data.budget_mode \in {"total", "per_person"}
  /\ data.comfort_level \in {"budget", "medium", "premium"}

\* C15 as stated: a request with a date defect is rejected with an issue on
\* endDate, one with a destination defect with an issue on
\* destination_location, and a request with neither defect gets neither issue
Orig_C15 ==
  Parsed =>
    /\ DateDefect(call.data) <=> "endDate" \in result
    /\ DestinationDefect(call.data) <=> "destination_location" \in result

\* C15 amended: the two issues are raised as stated when every property of the
\* request has a value of its type and enum; a request with a missing or
\* ill-typed property is rejected with the issues of its properties and with
\* neither of the two
Thm_C15 ==
  Parsed =>
    /\ WellTyped(call.data) =>
          /\ DateDefect(call.data) <=> "endDate" \in result
          /\ DestinationDefect(call.data) <=> "destination_location" \in result
    /\ ~WellTyped(call.data) =>
          /\ result # {}
          /\ result \cap {"endDate", "destination_location"} = {}

Wit_C15 ==
  /\ Parsed /\ WellTyped(call.data)
  /\ call.data.endDate = call.data.startDate /\ call.data.endDate # NaN
  /\ "destination_location" \notin DOMAIN call.data
  /\ call.data.trip_goal = "know_destination"
  /\ result = {"endDate", "destination_location"}

(***************************************************************************)
(* The suggestion lookups.                                                 *)
(***************************************************************************)
\* every timer and request alive is for the current value of its field, and
\* there is at most one
PendingIsCurrent(s) ==
  /\ Cardinality(s.pending) <= 1
  /\ \A p \in s.pending : p.query = TrimmedValue(s.value)

\* C16 as stated: the displayed suggestions never come from a superseded
\* query, and no timer or request of a previous value is alive
Orig_C16 ==
  \A f \in Fields :
    /\ PendingIsCurrent(suggest[f])
    /\ (suggest[f].showSuggestions /\ suggest[f].suggestions # <<>>) =>
          suggest[f].suggestedFor = TrimmedValue(suggest[f].value)

\* C16 amended: a new value cancels the timer and aborts the request of the
\* previous one, so every timer and request alive is for the current value, and
\* a step that stores suggestions stores the response to the current value's
\* query; the suggestions of an earlier completed query stay displayed until
\* then
Thm_C16 ==
  [][ \A f \in Fields :
        /\ PendingIsCurrent(suggest'[f])
        /\ (/\ suggest'[f].suggestions # <<>>
            /\ <<suggest'[f].suggestions, suggest'[f].suggestedFor>>
                  # <<suggest[f].suggestions, suggest[f].suggestedFor>>) =>
              suggest'[f].suggestedFor = TrimmedValue(suggest'[f].value)
    ]_vars

Wit_C16 ==
  /\ suggest["location"].abortedQuery = "Mu"
  /\ suggest["location"].value = "Mum"
  /\ suggest["location"].suggestedFor = "Mum"
  /\ suggest["location"].showSuggestions
  /\ suggest["location"].pending = {}

(***************************************************************************)
(* The server routes.                                                      *)
(***************************************************************************)
Recommended == server.pc = "done" /\ server.route = "recommend"

\* three well-formed options cannot be produced from the LLM's content: it is
\* empty, no JSON, null, without an options array, with fewer than three
\* options, or one of its first three options is null or has a budget that is
\* no number
NoThreeOptions(content) ==
  \/ content.kind # "object"
  \/ content.options # "array"
  \/ Len(content.list) < 3
  \/ \E i \in 1..Min(3, Len(content.list)) :
        content.list[i].isNull \/ content.list[i].low = NaN

\* C17: a 200 response of the recommend route holds exactly three options in
\* non-increasing order of total_score, every score within 1..10; content from
\* which three well-formed options cannot be produced gets a 400 or 500
\* response; every request ends with a response
Thm_C17 ==
  Recommended =>
    /\ server.response.status \in {200, 400, 500}
    /\ server.response.status = 200 =>
          /\ Len(server.response.options) = 3
          /\ \A i \in 1..2 :
                server.response.options[i].total_score
                  >= server.response.options[i + 1].total_score
          /\ \A i \in 1..3 : server.response.options[i].total_score \in 10..100
    /\ NoThreeOptions(server.content) => server.response.status \in {400, 500}
    /\ ~NoThreeOptions(server.content) => server.response.status = 200

Wit_C17 ==
  /\ Recommended
  /\ server.response.status = 200
  /\ Len(server.content.list) = 4
  /\ server.content.list[1].total_score = 1200
  /\ server.content.list[2].total_score = 6000
  /\ server.content.list[3].total_score = 2900
  /\ server.response.options[1].total_score = 100
  /\ server.response.options[3].total_score = 30

Suggested == server.pc = "done" /\ server.route = "suggestions"

\* C18: the location-suggestions route always answers 200 with a suggestions
\* list; the list is empty when the trimmed query has fewer than 2
\* characters, when the geocoding service answers non-OK, and when the
\* request or the handling of its response throws
Thm_C18 ==
  Suggested =>
    /\ server.response.status = 200
    /\ DOMAIN server.response = {"status", "suggestions"}
    /\ \A i \in 1..Len(server.response.suggestions) :
          server.response.suggestions[i].city # ""
    /\ ( \/ Length(server.request) < 2
         \/ server.content.kind \in {"fetchThrows", "notOk", "jsonThrows", "null"}
         \/ (server.content.kind = "object" /\ Throws(server.content)) )
        => server.response.suggestions = <<>>

Wit_C18 ==
  /\ Suggested
  /\ Length(server.request) >= 2
  /\ server.content.kind = "object"
  /\ Len(server.content.list) = 2
  /\ server.content.list[1].name = "Mumbai"
  /\ server.content.list[1].country = <<"India">>
  /\ server.content.list[1].country_code = ""
  /\ server.content.list[2].isNull
  /\ server.response.suggestions = <<>>

(***************************************************************************)
(* Next with a form that fails validation.                                 *)
(***************************************************************************)
\* C19: while the current step's listed fields fail validation and no analysis
\* is running, no step starts the analysis or changes the analysing flag, the
\* override flag or produces an analysis, and the wizard step and the budget
\* warning change only by Proceed Anyway or Back: pressing Next changes nothing
ListedFieldFails ==
  fieldsToValidate(currentStep, form) \cap SchemaIssuePaths(form) # {}

Thm_C19 ==
  [][ (pc = "idle" /\ ListedFieldFails) =>
        /\ pc' = "idle"
        /\ isAnalysingBasics' = isAnalysingBasics
        /\ allowProceedAnyway' = allowProceedAnyway
        /\ analysis' \in {analysis, <<>>}
        /\ \/ currentStep' = currentStep /\ budgetFeedback' = budgetFeedback
           \/ ProceedAnyway
           \/ prevStep ]_vars

\* the Next button can be pressed on a form that fails validation while a
\* budget warning with its override is displayed
Wit_C19 ==
  /\ pc = "idle"
  /\ currentStep = 0
  /\ ~isAnalysingBasics
  /\ ListedFieldFails
  /\ budgetFeedback # null
  /\ allowProceedAnyway

(***************************************************************************)
(* The trip type of know_destination mode.                                 *)
(***************************************************************************)
\* C20 as stated: the trip type of the budget estimate, the one the form
\* effect writes, the one of the destination labels and the server's inferred
\* one are equal for every origin and destination
Orig_C20 ==
  call.fn = "tripTypes" =>
    /\ result.budget = result.effect
    /\ result.effect = result.label
    /\ result.label = result.server

(***************************************************************************)
(* The numbers of a normalised option.                                     *)
(***************************************************************************)
\* the options normalizeRecommendationPayload made of the LLM's content
NormalizedOptions == normalizeRecommendationPayload(server.content).options

\* C23 as stated: every option the normaliser produces has its five scores
\* within 1..10 and a budget with 0 <= low <= high
Orig_C23 ==
  (Recommended /\ server.content.kind = "object") =>
    \A i \in 1..Len(NormalizedOptions) :
      /\ \A m \in {"vibe_fit", "affordability", "travel_convenience",
                     "safety_accessibility", "total_score"} :
            NormalizedOptions[i][m] \in 10..100
      /\ NormalizedOptions[i].low # NaN
      /\ NormalizedOptions[i].high # NaN
      /\ 0 <= NormalizedOptions[i].low
      /\ NormalizedOptions[i].low <= NormalizedOptions[i].high

(***************************************************************************)
(* The move from step 0 to step 1.                                         *)
(***************************************************************************)
\* C24 as stated: the wizard leaves step 0 only with form values whose budget
\* is not below the recommended range, or for which the proceed-anyway
\* condition holds
Orig_C24 ==
  [][ (currentStep = 0 /\ currentStep' = 1) =>
        \/ ~budgetBelowRange(form)
        \/ closeToRange(form) /\ ~tooInsufficientWithFlights(form) ]_vars

\* C25 as stated: the analysis moves the wizard to step 1 only with form
\* values that pass the validation of step 0
Orig_C25 ==
  [][ (pc = "analysing" /\ currentStep = 0 /\ currentStep' = 1) =>
        fieldsToValidate(0, form) \cap SchemaIssuePaths(form) = {} ]_vars

(***************************************************************************)
(* The comfort level the analysis writes.                                  *)
(***************************************************************************)
\* C27 as stated: the comfort_level the analysis writes into the form is a
\* member of the schema's enumeration, so the schema raises no comfort_level
\* issue for the form
Orig_C27 ==
  [][ AnalysisCompletes => "comfort_level" \notin SchemaIssuePaths(form') ]_vars

(***************************************************************************)
(* Companions and the number of people.                                    *)
(***************************************************************************)
\* C22: whenever companions is Solo the form's number_of_people is 1, and
\* whenever it is Couple it is 2
Thm_C22 ==
  /\ form.companions = "Solo" => form.number_of_people = 1
  /\ form.companions = "Couple" => form.number_of_people = 2

\* Solo selected by the third edit of companions and the number of people,
\* every other field as mounted
Wit_C22 ==
  /\ form.companions = "Solo"
  /\ form.number_of_people = 1
  /\ form.budget_amount = DefaultValues.budget_amount
  /\ form.location = <<>>
  /\ form.trip_goal = DefaultValues.trip_goal
  /\ form.trip_type = DefaultValues.trip_type
  /\ form.includes_flights = DefaultValues.includes_flights
  /\ form.max_flight_hours = DefaultValues.max_flight_hours
  /\ form.startDate = DefaultValues.startDate
  /\ form.endDate = DefaultValues.endDate
  /\ edits = 3

(***************************************************************************)
(* The requests of the submit.                                             *)
(***************************************************************************)
\* a generation request is issued by this step
Mutates == ~submit.isPending /\ submit'.isPending

\* C21: in need_recommendation mode a generation request is issued only when
\* options of a successful recommendation request are held and a destination
\* is selected, and it carries trip_goal know_destination and the selected
\* destination as destination_location; a submit without options issues the
\* recommendation request only
Thm_C21 ==
  [][ form.trip_goal = "need_recommendation" =>
        /\ Mutates =>
              /\ submit.destinationOptions # <<>>
              /\ submit.optionsFor # <<>>
              /\ submit.selectedDestination # <<>>
              /\ submit'.mutate[1].form.trip_goal = "know_destination"
              /\ submit'.mutate[1].form.destination_location
                   = submit.selectedDestination
              /\ submit'.recommend = <<>>
        /\ (submit.recommend = <<>> /\ submit'.recommend # <<>>) =>
              /\ submit.destinationOptions = <<>>
              /\ ~submit'.isPending ]_vars

\* the generation request of a selected option is in flight
Wit_C21 ==
  /\ form.trip_goal = "need_recommendation"
  /\ submit.isPending
  /\ submit.location = "/"
  /\ submit.destinationOptions # <<>>
  /\ submit.selectedDestination = <<"Goa", ",", " ", "India">>
  /\ submit.mutate[1].form.destination_location = <<"Goa", ",", " ", "India">>
  /\ submit.mutate[1].form.trip_goal = "know_destination"

=============================================================================
